---- MODULE Spec2Model ----
(***************************************************************************)
(* MadEasy Browser, src-tauri/src/main.rs: the Tauri (1.x) shell process.  *)
(* State: the process status, the set of live windows with their           *)
(* visibility, the focused window, the tray icon, the wall clock in        *)
(* seconds (create_new_window derives the window label from it), the       *)
(* create_new_window invocations in flight, the labels of the windows      *)
(* created so far, and the last handled event or completed command with    *)
(* its reply and its effect outside the process.                           *)
(*                                                                         *)
(* Framework behaviour the handlers rely on (tauri 1.x / tauri-runtime-wry):*)
(*  - Window::close() destroys the window, it does not emit CloseRequested;*)
(*  - a CloseRequested that no listener prevents destroys the window;      *)
(*  - when the last window is destroyed the event loop exits (nothing here *)
(*    prevents RunEvent::ExitRequested), which ends the process;           *)
(*  - a panic in a callback of the event loop ends the process;            *)
(*  - WindowBuilder::build fails when the label is already in use;         *)
(*  - an invoke of a command that generate_handler! does not list is       *)
(*    rejected with "command not found";                                   *)
(*  - calling an async fn without awaiting it runs none of its body.       *)
(* Title, size and url of a window are set when it is built and read by no *)
(* handler; a window is modelled by its label and its visibility.          *)
(***************************************************************************)
EXTENDS Integers, FiniteSets, Sequences, Bags, TLC

VARIABLES status, windows, focused, tray, clock, tasks, everCreated, last

vars == <<status, windows, focused, tray, clock, tasks, everCreated, last>>

(* ------------------------------ bounds --------------------------------- *)

\* the clock runs over the seconds 0..MaxClock (0 is the second of startup)
MaxClock == 1
\* create_new_window invocations that can be in flight at once
MaxTasks == 2

(* --------------------------- data of the code -------------------------- *)

\* impl Default for AppConfig
DefaultConfig ==
    [server_url |-> "http://localhost:5000", window_width |-> 1400,
     window_height |-> 900, auto_start |-> FALSE, theme |-> "system"]

\* a second AppConfig record, as hosted content may pass to save_app_config
OtherConfig ==
    [server_url |-> "http://example.org", window_width |-> 1024,
     window_height |-> 768, auto_start |-> TRUE, theme |-> "dark"]

\* placeholder of the AppConfig type where no record is carried
NoConfig ==
    [server_url |-> "", window_width |-> 0,
     window_height |-> 0, auto_start |-> FALSE, theme |-> ""]

AppConfig == {DefaultConfig, OtherConfig}

\* the label of the window the bootstrap creates
MainLabel == "main"

\* url arguments of create_new_window: None, a well-formed and a malformed one
NoUrl == "<none>"
UrlArgs == {NoUrl, "https://example.com/", "not a url"}

\* UrlParses accepting every string
UrlParses_Lenient(u) == TRUE

\* u.parse() of line 71: an absolute URL parses, a relative one does not
UrlParses(u) == u \in {"https://example.com/"}

\* format!("window_{}", chrono::Utc::now().timestamp())
WindowLabel(ts) == "window_" \o ToString(ts)

\* create_menu: the identifiers of the application menu
MenuIds == {"new_window", "settings", "close", "quit", "about"}

\* create_system_tray: the identifiers of the tray menu
TrayMenuIds == {"show", "hide", "new_window", "quit"}

\* tauri::generate_handler![...] of main
RegisteredCommands ==
    {"get_app_config", "save_app_config", "open_external_url",
     "get_system_info", "create_new_window", "minimize_to_tray",
     "show_notification"}

\* the command names hosted content may invoke (the documented surface)
CommandSurface ==
    {"fetch_without_cors", "execute_javascript", "navigate_to",
     "clear_browser_data", "get_app_config", "save_app_config",
     "open_external_url", "get_system_info", "create_new_window",
     "minimize_to_tray", "show_notification"}

(* ----------------------- results of the commands ----------------------- *)

\* payloads of Result<T, String>: (), AppConfig, HashMap of system info
NoData == [tag |-> "none", config |-> NoConfig]
UnitData == [tag |-> "unit", config |-> NoConfig]
ConfigData(c) == [tag |-> "config", config |-> c]
SysInfoData == [tag |-> "sysinfo", config |-> NoConfig]

\* Ok(v) and Err(e) as the {success, data, error} reply of an invoke
Ok(v) == [success |-> TRUE, data |-> v, error |-> ""]
Err(e) == [success |-> FALSE, data |-> NoData, error |-> e]

\* an OS event has no reply
NoReply == [success |-> TRUE, data |-> NoData, error |-> ""]

\* a handled event or completed command: what it was, the window it concerns,
\* its reply, the AppConfig argument it carried, and what it did outside the
\* process ("notification", "shell_open", "printed", the message of a panic,
\* or "none")
Step(kind, id, win, reply, arg, effect) ==
    [kind |-> kind, id |-> id, win |-> win, reply |-> reply, arg |-> arg,
     effect |-> effect]

Event(kind, id, win) == Step(kind, id, win, NoReply, NoConfig, "none")

Command(name, win, reply, effect) ==
    Step("command", name, win, reply, NoConfig, effect)

\* the step in which an unwrap() panicked
Panic(step, message) == [step EXCEPT !.effect = message]

(* --------------------------- window registry --------------------------- *)

Live == DOMAIN windows

NoWindows == [w \in {} |-> [visible |-> FALSE]]

NoFocus == "<none>"

\* ShowWindow showing every window of the registry
ShowWindow_All(ws, w) == [v \in DOMAIN ws |-> [ws[v] EXCEPT !.visible = TRUE]]

\* Window::show
ShowWindow(ws, w) == [ws EXCEPT ![w].visible = TRUE]

\* Window::hide
HideWindow(ws, w) == [ws EXCEPT ![w].visible = FALSE]

\* the window is destroyed and leaves the registry
DestroyWindow(ws, w) == [v \in (DOMAIN ws) \ {w} |-> ws[v]]

\* WindowBuilder::new(label, url)...build(): a new, visible window
AddWindow(ws, w) ==
    [v \in (DOMAIN ws) \cup {w} |-> IF v = w THEN [visible |-> TRUE] ELSE ws[v]]

\* the focus leaves a window that is hidden or destroyed
Unfocus(f, w) == IF f = w THEN NoFocus ELSE f

(* ------------------------------ the process ---------------------------- *)

Running == status = "running"

\* the process ends: every window and the tray icon go with it
Terminate(how, step) ==
    /\ status' = how
    /\ windows' = NoWindows
    /\ focused' = NoFocus
    /\ tray' = FALSE
    /\ tasks' = EmptyBag
    /\ last' = step
    /\ UNCHANGED <<clock, everCreated>>

Init ==
    /\ status = "bootstrap"
    /\ windows = NoWindows
    /\ focused = NoFocus
    /\ tray = FALSE
    /\ clock = 0
    /\ tasks = EmptyBag
    /\ everCreated = {}
    /\ last = Event("none", "", "")

\* main + setup_app: the builder creates the tray and the main window, setup
\* looks the main window up (unwrap) and sets its title (?), then the loop runs
Setup ==
    /\ status = "bootstrap"
    /\ \E outcome \in {"ok", "no_main_window", "set_title_failed"} :
         IF outcome = "ok"
         THEN /\ status' = "running"
              /\ windows' = AddWindow(NoWindows, MainLabel)
              /\ focused' = MainLabel
              /\ tray' = TRUE
              /\ everCreated' = {MainLabel}
              /\ last' = Event("setup", outcome, MainLabel)
              /\ UNCHANGED <<clock, tasks>>
         ELSE Terminate("aborted",
                        Panic(Event("setup", outcome, ""), "panic: setup"))

\* the wall clock reaches the next second
Tick ==
    /\ Running
    /\ clock < MaxClock
    /\ clock' = clock + 1
    /\ UNCHANGED <<status, windows, focused, tray, tasks, everCreated, last>>

(* ------------------------- system tray events ------------------------- *)

\* ShowAndFocusMain without the set_focus() call
ShowAndFocusMain_NoFocus(step) ==
    \E showOk \in BOOLEAN :
        IF MainLabel \notin Live
        THEN Terminate("panicked", Panic(step, "panic: no main window"))
        ELSE IF ~showOk
        THEN Terminate("panicked", Panic(step, "panic: show failed"))
        ELSE /\ windows' = ShowWindow(windows, MainLabel)
             /\ last' = step
             /\ UNCHANGED <<status, focused, tray, clock, tasks, everCreated>>

\* lines 158-160 and 171-173: get_window("main").unwrap(), show().unwrap(),
\* set_focus().unwrap(); any of the three failing panics in the event loop
ShowAndFocusMain(step) ==
    \E showOk \in BOOLEAN, focusOk \in BOOLEAN :
        IF MainLabel \notin Live
        THEN Terminate("panicked", Panic(step, "panic: no main window"))
        ELSE IF ~showOk
        THEN Terminate("panicked", Panic(step, "panic: show failed"))
        ELSE IF ~focusOk
        THEN Terminate("panicked", Panic(step, "panic: set_focus failed"))
        ELSE /\ windows' = ShowWindow(windows, MainLabel)
             /\ focused' = MainLabel
             /\ last' = step
             /\ UNCHANGED <<status, tray, clock, tasks, everCreated>>

\* lines 167-168: get_window("main").unwrap().hide().unwrap()
HideMain(step) ==
    \E hideOk \in BOOLEAN :
        IF MainLabel \notin Live
        THEN Terminate("panicked", Panic(step, "panic: no main window"))
        ELSE IF ~hideOk
        THEN Terminate("panicked", Panic(step, "panic: hide failed"))
        ELSE /\ windows' = HideWindow(windows, MainLabel)
             /\ focused' = Unfocus(focused, MainLabel)
             /\ last' = step
             /\ UNCHANGED <<status, tray, clock, tasks, everCreated>>

\* `let _ = create_new_window(..)` and `let _ = show_notification(..)`: the
\* future of the async fn is dropped without being polled, nothing runs;
\* "settings" only prints
NoStateChange(step) ==
    /\ last' = step
    /\ UNCHANGED <<status, windows, focused, tray, clock, tasks, everCreated>>

\* SystemTrayEvent::LeftClick
TrayLeftClick ==
    /\ Running
    /\ ShowAndFocusMain(Event("tray_click", "", MainLabel))

\* TrayMenuSelect with the "hide" and "show" arms exchanged
TrayMenuSelect_HideShows(id) ==
    /\ Running
    /\ id \in TrayMenuIds
    /\ CASE id = "quit" -> Terminate("exited", Event("tray_menu", id, ""))
         [] id = "hide" -> ShowAndFocusMain(Event("tray_menu", id, MainLabel))
         [] id = "show" -> HideMain(Event("tray_menu", id, MainLabel))
         [] id = "new_window" -> NoStateChange(Event("tray_menu", id, ""))

\* SystemTrayEvent::MenuItemClick { id }
TrayMenuSelect(id) ==
    /\ Running
    /\ id \in TrayMenuIds
    /\ CASE id = "quit" -> Terminate("exited", Event("tray_menu", id, ""))
         [] id = "hide" -> HideMain(Event("tray_menu", id, MainLabel))
         [] id = "show" -> ShowAndFocusMain(Event("tray_menu", id, MainLabel))
         [] id = "new_window" -> NoStateChange(Event("tray_menu", id, ""))

\* any other tray event (right click, double click): `_ => {}`
TrayOtherEvent ==
    /\ Running
    /\ last' = Event("tray_other", "", "")
    /\ UNCHANGED <<status, windows, focused, tray, clock, tasks, everCreated>>

(* ------------------------ menu and window events ----------------------- *)

\* window w leaves the registry; the event loop exits with the last window
DestroyAndMaybeExit(w, step) ==
    IF Live = {w}
    THEN Terminate("exited", step)
    ELSE /\ windows' = DestroyWindow(windows, w)
         /\ focused' = Unfocus(focused, w)
         /\ last' = step
         /\ UNCHANGED <<status, tray, clock, tasks, everCreated>>

\* MenuClose hiding the window instead of closing it
MenuClose_Hides(w, step) ==
    /\ windows' = HideWindow(windows, w)
    /\ focused' = Unfocus(focused, w)
    /\ last' = step
    /\ UNCHANGED <<status, tray, clock, tasks, everCreated>>

\* "close" => event.window().close().unwrap()
MenuClose(w, step) ==
    \E closeOk \in BOOLEAN :
        IF closeOk
        THEN DestroyAndMaybeExit(w, step)
        ELSE Terminate("panicked", Panic(step, "panic: close failed"))

\* MenuSelect with the "settings" arm falling into the "close" arm
MenuSelect_SettingsCloses(w, id) ==
    /\ Running
    /\ w \in Live
    /\ id \in MenuIds
    /\ CASE id = "quit" -> Terminate("exited", Event("menu", id, w))
         [] id = "close" -> MenuClose(w, Event("menu", id, w))
         [] id = "new_window" -> NoStateChange(Event("menu", id, w))
         [] id = "about" -> NoStateChange(Event("menu", id, w))
         [] id = "settings" ->
              MenuClose(w, Step("menu", id, w, NoReply, NoConfig, "printed"))

\* handle_menu_event: the menu of window w had item id selected
MenuSelect(w, id) ==
    /\ Running
    /\ w \in Live
    /\ id \in MenuIds
    /\ CASE id = "quit" -> Terminate("exited", Event("menu", id, w))
         [] id = "close" -> MenuClose(w, Event("menu", id, w))
         [] id = "new_window" -> NoStateChange(Event("menu", id, w))
         [] id = "about" -> NoStateChange(Event("menu", id, w))
         [] id = "settings" ->
              NoStateChange(Step("menu", id, w, NoReply, NoConfig, "printed"))

\* MainCloseRequested toggling the visibility instead of hiding
MainCloseRequested_Toggle(ws, f) ==
    [windows |-> [ws EXCEPT ![MainLabel].visible = ~ws[MainLabel].visible],
     focused |-> Unfocus(f, MainLabel)]

\* the listener setup_app installs on the main window: hide().unwrap(), then
\* api.prevent_close()
MainCloseRequested(ws, f) ==
    [windows |-> HideWindow(ws, MainLabel), focused |-> Unfocus(f, MainLabel)]

\* WindowCloseRequested with the listener of the main window on every window
WindowCloseRequested_HidesAny(w) ==
    /\ Running
    /\ w \in Live
    /\ windows' = HideWindow(windows, w)
    /\ focused' = Unfocus(focused, w)
    /\ last' = Event("close_requested", "", w)
    /\ UNCHANGED <<status, tray, clock, tasks, everCreated>>

\* WindowEvent::CloseRequested on window w: the main window has the listener
\* of setup_app, any other window has none and is destroyed
WindowCloseRequested(w) ==
    /\ Running
    /\ w \in Live
    /\ IF w = MainLabel
       THEN \E hideOk \in BOOLEAN :
              IF hideOk
              THEN /\ windows' = MainCloseRequested(windows, focused).windows
                   /\ focused' = MainCloseRequested(windows, focused).focused
                   /\ last' = Event("close_requested", "", w)
                   /\ UNCHANGED <<status, tray, clock, tasks, everCreated>>
              ELSE Terminate("panicked",
                             Panic(Event("close_requested", "", w),
                                   "panic: hide failed"))
       ELSE DestroyAndMaybeExit(w, Event("close_requested", "", w))

(* ------------------------------ commands ------------------------------- *)

\* hosted content of some live window invokes a command that
\* generate_handler! lists
Invoke(name) ==
    /\ Running
    /\ Live # {}
    /\ name \in RegisteredCommands

\* get_app_config: Ok(AppConfig::default())
GetAppConfigReply == Ok(ConfigData(DefaultConfig))

GetAppConfig ==
    /\ Invoke("get_app_config")
    /\ last' = Command("get_app_config", "", GetAppConfigReply, "none")
    /\ UNCHANGED <<status, windows, focused, tray, clock, tasks, everCreated>>

\* save_app_config(config): println!, Ok(())
SaveAppConfig(c) ==
    /\ Invoke("save_app_config")
    /\ last' = Step("command", "save_app_config", "", Ok(UnitData), c,
                    "printed")
    /\ UNCHANGED <<status, windows, focused, tray, clock, tasks, everCreated>>

\* OpenExternalUrlReply losing the message of the error
OpenExternalUrlReply_NoMessage(opened) ==
    IF opened THEN Ok(UnitData) ELSE Err("")

\* open_external_url: shell::open(..).map_err(to_string)
OpenExternalUrlReply(opened) ==
    IF opened THEN Ok(UnitData) ELSE Err("shell open failed")

OpenExternalUrl ==
    /\ Invoke("open_external_url")
    /\ \E opened \in BOOLEAN :
         last' = Command("open_external_url", "", OpenExternalUrlReply(opened),
                         IF opened THEN "shell_open" ELSE "none")
    /\ UNCHANGED <<status, windows, focused, tray, clock, tasks, everCreated>>

\* get_system_info: Ok(map of platform, arch, family)
GetSystemInfo ==
    /\ Invoke("get_system_info")
    /\ last' = Command("get_system_info", "", Ok(SysInfoData), "none")
    /\ UNCHANGED <<status, windows, focused, tray, clock, tasks, everCreated>>

\* an invocation of create_new_window between its two halves: the label it
\* formatted
Task(label) == [label |-> label]

\* create_new_window, lines 70-78: the url is parsed (an error returns at
\* once), the label is formatted from the clock; the build runs later
CreateNewWindowBegin(url) ==
    /\ Invoke("create_new_window")
    /\ IF url # NoUrl /\ ~UrlParses(url)
       THEN /\ last' = Command("create_new_window", "", Err("Invalid URL"),
                               "none")
            /\ UNCHANGED tasks
       ELSE /\ BagCardinality(tasks) < MaxTasks
            /\ tasks' = tasks (+) SetToBag({Task(WindowLabel(clock))})
            /\ UNCHANGED last
    /\ UNCHANGED <<status, windows, focused, tray, clock, everCreated>>

\* create_new_window, lines 79-86: build() fails when the label is in use or
\* the OS refuses the window; otherwise the window exists, visible and focused
CreateNewWindowBuild(t) ==
    /\ Running
    /\ BagIn(t, tasks)
    /\ tasks' = tasks (-) SetToBag({t})
    /\ \E created \in BOOLEAN :
         IF t.label \in Live
         THEN /\ last' = Command("create_new_window", t.label,
                                 Err("window label already exists"), "none")
              /\ UNCHANGED <<windows, focused, everCreated>>
         ELSE IF ~created
         THEN /\ last' = Command("create_new_window", t.label,
                                 Err("window creation failed"), "none")
              /\ UNCHANGED <<windows, focused, everCreated>>
         ELSE /\ last' = Command("create_new_window", t.label, Ok(UnitData),
                                 "none")
              /\ windows' = AddWindow(windows, t.label)
              /\ focused' = t.label
              /\ everCreated' = everCreated \cup {t.label}
    /\ UNCHANGED <<status, tray, clock>>

\* MinimizeToTray hiding the main window instead of the caller's
MinimizeToTray_HidesMain(w) ==
    /\ Invoke("minimize_to_tray")
    /\ w \in Live
    /\ MainLabel \in Live
    /\ last' = Command("minimize_to_tray", w, Ok(UnitData), "none")
    /\ windows' = HideWindow(windows, MainLabel)
    /\ focused' = Unfocus(focused, MainLabel)
    /\ UNCHANGED <<status, tray, clock, tasks, everCreated>>

\* minimize_to_tray: window.hide().map_err(to_string)?, window = the caller's
MinimizeToTray(w) ==
    /\ Invoke("minimize_to_tray")
    /\ w \in Live
    /\ \E hideOk \in BOOLEAN :
         IF hideOk
         THEN /\ last' = Command("minimize_to_tray", w, Ok(UnitData), "none")
              /\ windows' = HideWindow(windows, w)
              /\ focused' = Unfocus(focused, w)
         ELSE /\ last' = Command("minimize_to_tray", w, Err("hide failed"),
                                 "none")
              /\ UNCHANGED <<windows, focused>>
    /\ UNCHANGED <<status, tray, clock, tasks, everCreated>>

\* show_notification: Notification::new(..).title(..).body(..).show()
ShowNotification ==
    /\ Invoke("show_notification")
    /\ \E shown \in BOOLEAN :
         last' = IF shown
                 THEN Command("show_notification", "", Ok(UnitData),
                              "notification")
                 ELSE Command("show_notification", "",
                              Err("notification failed"), "none")
    /\ UNCHANGED <<status, windows, focused, tray, clock, tasks, everCreated>>

\* an invoke of a name that generate_handler! does not list is rejected
DispatchUnknown(name) ==
    /\ Running
    /\ Live # {}
    /\ name \in CommandSurface
    /\ name \notin RegisteredCommands
    /\ last' = Command(name, "", Err("command not found"), "none")
    /\ UNCHANGED <<status, windows, focused, tray, clock, tasks, everCreated>>

(* --------------------------- the state machine ------------------------- *)

AllLabels == {MainLabel} \cup {WindowLabel(ts) : ts \in 0..MaxClock}

Next ==
    \/ Setup
    \/ Tick
    \/ TrayLeftClick
    \/ \E id \in TrayMenuIds : TrayMenuSelect(id)
    \/ TrayOtherEvent
    \/ \E w \in AllLabels, id \in MenuIds : MenuSelect(w, id)
    \/ \E w \in AllLabels : WindowCloseRequested(w)
    \/ GetAppConfig
    \/ \E c \in AppConfig : SaveAppConfig(c)
    \/ OpenExternalUrl
    \/ GetSystemInfo
    \/ \E url \in UrlArgs : CreateNewWindowBegin(url)
    \/ \E t \in BagToSet(tasks) : CreateNewWindowBuild(t)
    \/ \E w \in AllLabels : MinimizeToTray(w)
    \/ ShowNotification
    \/ \E name \in CommandSurface : DispatchUnknown(name)

Spec == Init /\ [][Next]_vars

(* ------------------------------- claims -------------------------------- *)

IsTrayMenu(step, id) == step.kind = "tray_menu" /\ step.id = id
IsMenu(step, id) == step.kind = "menu" /\ step.id = id
IsCommand(step, name) == step.kind = "command" /\ step.id = name
IsCloseRequested(step, w) == step.kind = "close_requested" /\ step.win = w

\* C1: while the process is running the window "main" is live, whatever
\* events and commands were handled.
C1_MainAlwaysLive == Running => MainLabel \in Live

\* C2: the process exits only in a step that handles the quit item of the
\* tray menu or of the application menu; no close of a window makes it exit.
\* (The exits are the orderly ones; the panics are the matter of C3.)
C2_ExitOnlyByQuit ==
    status = "exited" => IsTrayMenu(last, "quit") \/ IsMenu(last, "quit")

\* C3: once the event loop runs, no failure met while handling an event or a
\* command ends the process.
C3_NoFailureTerminates == status # "panicked"

\* C4: get_app_config completing right after save_app_config(c) replies c.
C4_SaveThenGet ==
    [][(IsCommand(last, "save_app_config") /\ IsCommand(last', "get_app_config"))
         => last'.reply = Ok(ConfigData(last.arg))]_vars

\* C5: the label a create_new_window invocation uses is the label of no
\* window created earlier in the run.
C5_FreshWindowId == \A t \in BagToSet(tasks) : t.label \notin everCreated

\* C6: after WindowCloseRequested("main") is handled (its hide succeeding) the
\* process runs, the main window is live and hidden, the live windows are
\* not none, and handling the event once more gives the same state.
C6_MainCloseHides ==
    (IsCloseRequested(last, MainLabel) /\ last.effect = "none") =>
        /\ Running
        /\ MainLabel \in Live
        /\ ~windows[MainLabel].visible
        /\ Cardinality(Live) >= 1
        /\ MainCloseRequested(windows, focused) =
               [windows |-> windows, focused |-> focused]

C6_Witness ==
    /\ IsCloseRequested(last, MainLabel)
    /\ last.effect = "none"
    /\ Running
    /\ MainLabel \in Live
    /\ ~windows[MainLabel].visible

\* C7: the tray item quit ends the process; the tray item hide, handled with
\* a live main window whose hide succeeds, leaves the process running, the
\* main window live and hidden, and the tray icon present.
C7_TrayQuitAndHide ==
    [][/\ (Running /\ IsTrayMenu(last', "quit")) => status' = "exited"
       /\ (/\ Running
           /\ MainLabel \in Live
           /\ IsTrayMenu(last', "hide")
           /\ last'.effect # "panic: hide failed")
          => /\ status' = "running"
             /\ MainLabel \in DOMAIN windows'
             /\ ~windows'[MainLabel].visible
             /\ tray']_vars

C7_Witness ==
    /\ IsTrayMenu(last, "hide")
    /\ Running
    /\ MainLabel \in Live
    /\ ~windows[MainLabel].visible
    /\ tray

\* C8: the reply of every completed command is a well-formed envelope: a
\* failure carries an error and no data, a success carries no error.
C8_WellFormedEnvelope ==
    last.kind = "command" =>
        /\ ~last.reply.success =>
              (last.reply.error # "" /\ last.reply.data = NoData)
        /\ last.reply.success => last.reply.error = ""

C8_Witness ==
    /\ IsCommand(last, "open_external_url")
    /\ ~last.reply.success

\* C9: each of the eleven names of the command surface reaches a handler, none
\* is rejected as unknown.
C9_AllElevenRegistered ==
    (last.kind = "command" /\ last.id \in CommandSurface) =>
        last.reply.error # "command not found"

\* C10: handling the new_window item of the tray menu or of the application
\* menu creates a window (or starts a creation): one more live window, or one
\* more invocation in flight.
C10_NewWindowEventCreates ==
    [][((\E w \in AllLabels : MenuSelect(w, "new_window"))
          \/ TrayMenuSelect("new_window"))
         => \/ Cardinality(DOMAIN windows') = Cardinality(Live) + 1
            \/ BagCardinality(tasks') = BagCardinality(tasks) + 1]_vars

\* the windows other than w that are live before a step are live after it,
\* with the visibility they had
OthersUntouched(w) ==
    \A v \in Live \ {w} : v \in DOMAIN windows' /\ windows'[v] = windows[v]

\* C11: handling the about item of the application menu shows one OS
\* notification.
C11_AboutNotifies == IsMenu(last, "about") => last.effect = "notification"

\* C12: WindowCloseRequested on a live window other than "main" closes it: it
\* is live no more, every other window stays live with its visibility.
C12_OtherWindowCloses ==
    [][\A w \in AllLabels \ {MainLabel} :
          WindowCloseRequested(w) =>
              (w \notin DOMAIN windows' /\ OthersUntouched(w))]_vars

C12_Witness ==
    /\ last.kind = "close_requested"
    /\ last.win # MainLabel
    /\ last.win \notin Live
    /\ MainLabel \in Live
    /\ Running

\* C13: with a live main window, a left click on the tray and the tray item
\* show leave the main window visible and focused, the tray item hide leaves
\* it hidden (their capability calls succeeding); none of them changes the
\* set of live windows or the visibility of another window.
C13_TrayShowHide ==
    [][/\ (/\ MainLabel \in Live
           /\ TrayLeftClick \/ TrayMenuSelect("show")
           /\ last'.effect \notin {"panic: show failed",
                                   "panic: set_focus failed"})
          => /\ DOMAIN windows' = Live
             /\ windows'[MainLabel].visible
             /\ focused' = MainLabel
             /\ OthersUntouched(MainLabel)
       /\ (/\ MainLabel \in Live
           /\ TrayMenuSelect("hide")
           /\ last'.effect # "panic: hide failed")
          => /\ DOMAIN windows' = Live
             /\ ~windows'[MainLabel].visible
             /\ OthersUntouched(MainLabel)]_vars

\* the main window was hidden and unfocused, another window is live, and the
\* tray showed the main window
C13_Witness ==
    /\ last.kind = "tray_click" \/ IsTrayMenu(last, "show")
    /\ last.effect = "none"
    /\ MainLabel \in Live
    /\ windows[MainLabel].visible
    /\ focused = MainLabel
    /\ \E v \in Live \ {MainLabel} : ~windows[v].visible

\* C14: create_new_window with a malformed url replies a failure with a
\* message and creates nothing: no window, no change of visibility, no
\* creation in flight.
C14_InvalidUrlCreatesNothing ==
    [][CreateNewWindowBegin("not a url") =>
          /\ ~last'.reply.success
          /\ last'.reply.error # ""
          /\ windows' = windows
          /\ tasks' = tasks]_vars

C14_Witness ==
    /\ IsCommand(last, "create_new_window")
    /\ last.reply = Err("Invalid URL")
    /\ Cardinality(Live) >= 2

C16_MenuCloseClosesOwner ==
    [][\A w \in AllLabels :
          (MenuSelect(w, "close") /\ last'.effect # "panic: close failed")
              => (w \notin DOMAIN windows' /\ OthersUntouched(w))]_vars

C16_Witness ==
    /\ IsMenu(last, "close")
    /\ last.effect = "none"
    /\ Running
    /\ last.win \notin Live
    /\ Cardinality(Live) >= 1

\* C17: the settings item of the menu changes no native state: the live
\* windows, their visibility and the status of the process stay as they were.
C17_SettingsChangesNothing ==
    [][\A w \in AllLabels :
          MenuSelect(w, "settings") =>
              (windows' = windows /\ status' = status)]_vars

C17_Witness ==
    /\ IsMenu(last, "settings")
    /\ Running
    /\ Cardinality(Live) >= 2

\* C18: a hidden window other than "main" stays hidden in every step that
\* leaves it live: nothing but its close or the end of the process ends its
\* being hidden.
C18_HiddenStaysHidden ==
    [][\A w \in Live \ {MainLabel} :
          (~windows[w].visible /\ w \in DOMAIN windows')
              => ~windows'[w].visible]_vars

\* the main window was shown from the tray while a window hidden by
\* minimize_to_tray is still live, and still hidden
C18_Witness ==
    /\ last.kind = "tray_click" \/ IsTrayMenu(last, "show")
    /\ last.effect = "none"
    /\ Running
    /\ \E w \in Live \ {MainLabel} : ~windows[w].visible
====
